---- MODULE Spec2Model ----
(***************************************************************************)
(* YouTubeCommentsKeywordExtractor (script/youtube_extraction.py).         *)
(*                                                                         *)
(* One behaviour is one call of a public method of the extractor, chosen   *)
(* in Init together with its arguments:                                    *)
(*   op = "search"   search_videos_by_keyword(keyword, max_results)        *)
(*   op = "rank"     get_top_comments_by_likes(video_id, max_comments)     *)
(*   op = "extract"  extract_top_comments_from_videos(videos, n) followed  *)
(*                   by save_to_excel(results, filename), as main() does   *)
(* The remote API is the environment: every request is answered by a page  *)
(* or by an HttpError, drawn from bounded sets.                            *)
(***************************************************************************)
EXTENDS Integers, Sequences, FiniteSets, TLC

VARIABLES
    op,               \* the method the caller invoked
    pc,               \* "loop" | "returned" | "raised" | "saved"
    max_results,      \* search: argument max_results
    videos,           \* search: local list videos, in the order appended (the sort makes
                      \* result); extract: argument videos
    next_page_token,  \* search and rank: local next_page_token
    completed_ids,    \* search (history): video ids of the pages whose requests all succeeded
    http_error,       \* search and rank (history): "none", or which request raised HttpError
    video_id,         \* rank: argument video_id
    max_comments,     \* rank: argument max_comments; extract: top_comments_count
    comments,         \* rank: local list comments, in the order appended (the sort and
                      \* the slice make result)
    total_fetched,    \* rank: local total_fetched
    request,          \* search and rank (history): the latest page request, for rank
                      \* with what had been fetched and answered when it was issued
    response,         \* rank (history): kind and token of the latest commentThreads response
    i,                \* extract: number of videos the for loop has processed
    results,          \* extract: local dict results, the report
    errors,           \* extract (history): per processed video, which request raised HttpError
    workbook,         \* save: what the spreadsheet sink was given
    result            \* search, rank: the value returned; save: save_to_excel's return value

(***************************************************************************)
(* Bounds of the model.                                                    *)
(***************************************************************************)
MaxResults == 3                \* max_results ranges over 0..MaxResults
PageSizes == 0..2              \* number of items of a search page
VideoIds == {"v1", "v2"}       \* video identifiers the platform knows
ViewCounts == {1, 2}           \* viewCount values of a statistics item
Tokens == {"t1", "t2"}         \* page tokens the platform hands out
CommentCounts == {0, 1, 2}     \* values of max_comments, any page answered
WideCommentCounts == {20, 21}  \* values of max_comments at and over the cap of fetch_limit
PartialPage == 40              \* threads of a partial page of a call with a wide max_comments
MaxCPage == 2                  \* a commentThreads page holds 0..MaxCPage threads
LikeCounts == {0, 1}           \* likeCount values of a comment
MaxVideos == 2                 \* extract: the argument videos holds 0..MaxVideos records
ScriptLengths == 0..2          \* extract: number of requests of one call of the ranker
ScriptPageSizes == 0..1        \* extract: number of threads of a commentThreads page

SearchPageMax == 50            \* batch_size = min(50, remaining)
OverFetchFactor == 5           \* fetch_limit = min(max_comments * 5, 100)
MaxFetch == 100
CommentPageMax == 100          \* batch_size = min(100, remaining)

NoToken == "None"              \* response.get('nextPageToken') of a last page: None

Min(a, b) == IF a < b THEN a ELSE b

Range(s) == {s[j] : j \in 1..Len(s)}

SeqsOfLen(S, lens) == UNION {[1..k -> S] : k \in lens}

Take(s, n) == SubSeq(s, 1, Min(n, Len(s)))

(***************************************************************************)
(* list.sort(key=lambda x: x[field], reverse=True): a stable sort, so      *)
(* records with equal keys keep their order of insertion.                  *)
(***************************************************************************)
\* The sort left out: the list stays in the order of insertion.
SortOmitted(s, field) == s

\* The elements of s whose key is in keys, by decreasing key; those with the
\* same key in their order in s.
RECURSIVE GroupsDescBy(_, _, _)
GroupsDescBy(s, field, keys) ==
    IF keys = {} THEN <<>>
    ELSE LET top == CHOOSE m \in keys : \A k \in keys : k <= m
         IN  SelectSeq(s, LAMBDA x : x[field] = top) \o GroupsDescBy(s, field, keys \ {top})

SortDescBy(s, field) == GroupsDescBy(s, field, {s[j][field] : j \in 1..Len(s)})

(***************************************************************************)
(* search_videos_by_keyword                                                *)
(***************************************************************************)

\* The outcomes of one iteration's remote requests: the search request fails;
\* or it returns items and the statistics request fails; or both succeed.
\* stats_map holds a viewCount for some of the page's ids only.
SearchResponses ==
    {[kind |-> "search_error", items |-> <<>>, stats_map |-> <<>>, token |-> NoToken]}
    \cup {[kind |-> "stats_error", items |-> it, stats_map |-> <<>>, token |-> NoToken] :
             it \in SeqsOfLen(VideoIds, PageSizes) \ {<<>>}}
    \cup UNION {{[kind |-> "ok", items |-> it, stats_map |-> sm, token |-> t] :
                   sm \in UNION {[S -> ViewCounts] : S \in SUBSET Range(it)},
                   t \in Tokens \cup {NoToken}} :
                it \in SeqsOfLen(VideoIds, PageSizes)}

\* video_info of one search item joined with stats_map.get(video_id, {}).
VideoInfo(vid, stats_map) ==
    [video_id |-> vid,
     view_count |-> IF vid \in DOMAIN stats_map THEN stats_map[vid] ELSE 0]

\* The body of the while loop, for the local state st = [videos, next_page_token]:
\* the new locals and how the iteration ends.
\* As SearchLoopBody, with an except clause that gives up what was accumulated.
SearchLoopBodyDropsOnError(st, resp) ==
    IF resp.kind \in {"search_error", "stats_error"}
    THEN [videos |-> <<>>, next_page_token |-> st.next_page_token, exit |-> "except"]
    ELSE LET page == [j \in 1..Len(resp.items) |-> VideoInfo(resp.items[j], resp.stats_map)]
         IN  [videos |-> st.videos \o page,
              next_page_token |-> resp.token,
              exit |-> IF resp.token = NoToken THEN "break" ELSE "continue"]

SearchLoopBody(st, resp) ==
    IF resp.kind \in {"search_error", "stats_error"}
    THEN [videos |-> st.videos, next_page_token |-> st.next_page_token, exit |-> "except"]
    ELSE LET page == [j \in 1..Len(resp.items) |-> VideoInfo(resp.items[j], resp.stats_map)]
         IN  [videos |-> st.videos \o page,
              next_page_token |-> resp.token,
              exit |-> IF resp.token = NoToken THEN "break" ELSE "continue"]

\* videos.sort(key=view_count, reverse=True); return videos
SortedByViews(vs) == SortDescBy(vs, "view_count")

vars == <<op, pc, max_results, videos, next_page_token, completed_ids, http_error,
          video_id, max_comments, comments, total_fetched, request, response,
          i, results, errors, workbook, result>>

EmptyReport(n) ==
    [extraction_info |-> [total_videos_processed |-> 0,
                          videos_with_comments |-> 0,
                          top_comments_per_video |-> n],
     videos |-> <<>>]

\* No commentThreads response yet.
NoResponse == [kind |-> "none", token |-> NoToken]

\* The spreadsheet sink before any write.
NoWorkbook ==
    [written |-> FALSE, filename |-> <<>>,
     Top_Comments |-> <<>>, Summary |-> <<>>, Video_Overview |-> <<>>]

SearchInit ==
    /\ op = "search"
    /\ pc = "loop"
    /\ max_results \in 0..MaxResults
    /\ videos = <<>>
    /\ next_page_token = NoToken
    /\ completed_ids = <<>>
    /\ http_error = "none"
    /\ video_id = "none"
    /\ max_comments = 0
    /\ comments = <<>>
    /\ total_fetched = 0
    /\ request = [maxResults |-> 0, pageToken |-> NoToken]
    /\ response = NoResponse
    /\ i = 0
    /\ results = EmptyReport(0)
    /\ errors = <<>>
    /\ workbook = NoWorkbook
    /\ result = <<>>

\* One iteration of the while loop; when it is the last one, the sort and the return.
SearchIteration ==
    /\ op = "search" /\ pc = "loop"
    /\ Len(videos) < max_results
    /\ \E resp \in SearchResponses :
         LET st == SearchLoopBody([videos |-> videos, next_page_token |-> next_page_token], resp)
             more == st.exit = "continue" /\ Len(st.videos) < max_results
         IN  /\ next_page_token' = st.next_page_token
             /\ completed_ids' = IF resp.kind = "ok" THEN completed_ids \o resp.items
                                 ELSE completed_ids
             /\ http_error' = IF resp.kind = "ok" THEN "none"
                              ELSE IF next_page_token = NoToken THEN "first_page"
                              ELSE "later_page"
             /\ request' = [maxResults |-> Min(SearchPageMax, max_results - Len(videos)),
                            pageToken |-> next_page_token]
             /\ IF more
                THEN /\ videos' = st.videos
                     /\ UNCHANGED <<pc, result>>
                ELSE /\ videos' = st.videos
                     /\ pc' = "returned"
                     /\ result' = SortedByViews(st.videos)
    /\ UNCHANGED <<op, max_results, video_id, max_comments, comments, total_fetched,
                   response, i, results, errors, workbook>>

\* The while condition is false on entry (max_results <= 0): sort and return.
SearchSkipLoop ==
    /\ op = "search" /\ pc = "loop"
    /\ ~(Len(videos) < max_results)
    /\ pc' = "returned"
    /\ result' = SortedByViews(videos)
    /\ UNCHANGED <<op, max_results, videos, next_page_token, completed_ids, http_error,
                   video_id, max_comments, comments, total_fetched, request, response,
                   i, results, errors, workbook>>

SearchNext == SearchIteration \/ SearchSkipLoop

SpecSearch == SearchInit /\ [][SearchNext]_vars

\* The interpreter keeps running the call: a step that can be taken is taken.
LiveSearch == SpecSearch /\ WF_vars(SearchNext)

(***************************************************************************)
(* Properties of search_videos_by_keyword                                  *)
(***************************************************************************)

NonIncreasing(s, field) == \A j \in 1..Len(s) - 1 : s[j][field] >= s[j + 1][field]

Occurrences(s, x) == Cardinality({j \in 1..Len(s) : s[j] = x})

SearchReturned == op = "search" /\ pc = "returned"

\* C1: the list search_videos_by_keyword returns is in non-increasing
\* view_count order, whatever the pages were and whether or not a request failed.
C1_SearchResultSorted ==
    SearchReturned => NonIncreasing(result, "view_count")

\* C1 witness: a call returned three records that were appended in another
\* order than the one returned.
C1_Witness ==
    /\ SearchReturned
    /\ Len(result) = 3
    /\ result[1].view_count > result[3].view_count
    /\ videos[1].view_count < videos[2].view_count
    /\ result # videos

\* C2: the list search_videos_by_keyword returns holds at most max_results
\* records.
C2_SearchResultCapped ==
    SearchReturned => Len(result) <= max_results

\* C9: when a request of the search fails, the call returns at once, and it
\* returns the records of the pages completed before: one record per video id
\* those pages served, none dropped and none added, sorted by view count.
C9_SearchFailureReturnsAccumulated ==
    (op = "search" /\ http_error # "none") =>
        /\ pc = "returned"
        /\ Len(result) = Len(completed_ids)
        /\ \A v \in VideoIds :
              Occurrences([j \in 1..Len(result) |-> result[j].video_id], v)
                  = Occurrences(completed_ids, v)
        /\ NonIncreasing(result, "view_count")

\* C9 witness: the request for a later page failed after two records had been
\* accumulated, and both were returned.
C9_Witness ==
    /\ SearchReturned
    /\ http_error = "later_page"
    /\ Len(completed_ids) = 2
    /\ Len(result) = 2
    /\ result[1].view_count > result[2].view_count

\* C10: a search call, once issued, eventually returns.
C10_SearchTerminates == <>(op = "search" /\ pc = "returned")

(***************************************************************************)
(* get_top_comments_by_likes                                               *)
(***************************************************************************)

\* The over-fetch target without its cap.
FetchLimitUncapped(n) == n * OverFetchFactor

\* fetch_limit = min(max_comments * 5, 100)
FetchLimit(n) == Min(n * OverFetchFactor, MaxFetch)

\* A page size that forgets what was fetched already.
BatchSizeIgnoresFetched(fetch_limit, fetched) == Min(CommentPageMax, fetch_limit)

\* remaining = fetch_limit - total_fetched; batch_size = min(100, remaining)
BatchSize(fetch_limit, fetched) == Min(CommentPageMax, fetch_limit - fetched)

\* The commentThreads().list request of one iteration: maxResults and pageToken.
\* issued, fetched and after are history: the number of comments held and the
\* latest response received when the request was made.
CommentRequest(fetch_limit, fetched, token, held, latest) ==
    [issued |-> TRUE,
     maxResults |-> BatchSize(fetch_limit, fetched),
     pageToken |-> token,
     fetched |-> held,
     after |-> latest]

\* No commentThreads request yet.
NoCommentRequest ==
    [issued |-> FALSE, maxResults |-> 0, pageToken |-> NoToken,
     fetched |-> 0, after |-> NoResponse]

\* The threads of a commentThreads page whose likeCounts are likes; the
\* platform numbers a video's threads, so the k-th thread served has id k.
ThreadItems(start, likes) ==
    [j \in 1..Len(likes) |-> [id |-> start + j, likeCount |-> likes[j]]]

\* The outcomes of one commentThreads request, before the thread ids are known:
\* an HttpError with its reason, or a page with or without a next-page token.
ErrorReasons == {"commentsDisabled", "videoNotFound", "quotaExceeded"}

CommentResponsesOf(sizes) ==
    {[kind |-> "error", likes |-> <<>>, token |-> NoToken, reason |-> r] : r \in ErrorReasons}
    \cup {[kind |-> "page", likes |-> l, token |-> t, reason |-> "none"] :
             l \in SeqsOfLen(LikeCounts, sizes), t \in Tokens \cup {NoToken}}

CommentResponses == CommentResponsesOf(0..MaxCPage)

\* The outcomes of one request of a call with a large max_comments: the page
\* is empty, partial or as long as requested, and its threads have the same
\* likeCount.
WideCommentResponses(requested) ==
    {[kind |-> "error", likes |-> <<>>, token |-> NoToken, reason |-> r] : r \in ErrorReasons}
    \cup {[kind |-> "page", likes |-> [j \in 1..k |-> l], token |-> t, reason |-> "none"] :
             k \in {0, PartialPage, requested}, l \in LikeCounts, t \in Tokens \cup {NoToken}}

\* What the platform may answer to a request of a call with max_comments = n.
RankResponses(n, requested) ==
    IF n \in WideCommentCounts THEN WideCommentResponses(requested) ELSE CommentResponses

\* The except clause: every reason is printed, none is raised again.
HandleHttpError(reason) ==
    IF reason = "commentsDisabled" THEN "printed"
    ELSE IF reason = "videoNotFound" THEN "printed"
    ELSE "printed"

\* comment_data of one thread item.
CommentData(vid, item) ==
    [video_id |-> vid, comment_id |-> item.id, like_count |-> item.likeCount]

\* The body of the while loop, for the local state
\* st = [comments, next_page_token, total_fetched] and the response resp
\* (resp.items are the page's threads): the new locals and how the iteration ends.
CommentLoopBody(st, vid, resp) ==
    IF resp.kind = "error"
    THEN [comments |-> st.comments, next_page_token |-> st.next_page_token,
          total_fetched |-> st.total_fetched,
          exit |-> IF HandleHttpError(resp.reason) = "printed" THEN "except" ELSE "raise"]
    ELSE [comments |-> st.comments \o [j \in 1..Len(resp.items) |-> CommentData(vid, resp.items[j])],
          next_page_token |-> resp.token,
          total_fetched |-> st.total_fetched + Len(resp.items),
          exit |-> IF resp.token = NoToken THEN "break" ELSE "continue"]

\* The slice taken before the sort: the first n fetched, then sorted.
TopCommentsSliceFirst(cs, n) == SortDescBy(Take(cs, n), "like_count")

\* comments.sort(key=like_count, reverse=True); return comments[:max_comments]
TopComments(cs, n) == Take(SortDescBy(cs, "like_count"), n)

\* The response the loop body sees: raw with its thread ids filled in.
WithItems(raw, start) ==
    [kind |-> raw.kind, items |-> ThreadItems(start, raw.likes),
     token |-> raw.token, reason |-> raw.reason]

RankInit ==
    /\ op = "rank"
    /\ pc = "loop"
    /\ max_results = 0
    /\ videos = <<>>
    /\ next_page_token = NoToken
    /\ completed_ids = <<>>
    /\ http_error = "none"
    /\ video_id = "v1"
    /\ max_comments \in CommentCounts \cup WideCommentCounts
    /\ comments = <<>>
    /\ total_fetched = 0
    /\ request = NoCommentRequest
    /\ response = NoResponse
    /\ i = 0
    /\ results = EmptyReport(0)
    /\ errors = <<>>
    /\ workbook = NoWorkbook
    /\ result = <<>>

\* One iteration of the while loop; when it is the last one, the sort, the
\* slice and the return (or the exception leaving the method).
RankIteration ==
    /\ op = "rank" /\ pc = "loop"
    /\ total_fetched < FetchLimit(max_comments)
    /\ \E raw \in RankResponses(max_comments,
                                 BatchSize(FetchLimit(max_comments), total_fetched)) :
         LET st == CommentLoopBody([comments |-> comments,
                                    next_page_token |-> next_page_token,
                                    total_fetched |-> total_fetched],
                                   video_id, WithItems(raw, total_fetched))
             more == st.exit = "continue" /\ st.total_fetched < FetchLimit(max_comments)
         IN  /\ next_page_token' = st.next_page_token
             /\ total_fetched' = st.total_fetched
             /\ request' = CommentRequest(FetchLimit(max_comments), total_fetched,
                                          next_page_token, Len(comments), response)
             /\ response' = [kind |-> raw.kind, token |-> raw.token]
             /\ http_error' = IF raw.kind = "page" THEN "none"
                              ELSE IF next_page_token = NoToken THEN "first_page"
                              ELSE "later_page"
             /\ IF more
                THEN /\ comments' = st.comments
                     /\ UNCHANGED <<pc, result>>
                ELSE IF st.exit = "raise"
                THEN /\ comments' = st.comments
                     /\ pc' = "raised"
                     /\ UNCHANGED result
                ELSE /\ comments' = st.comments
                     /\ pc' = "returned"
                     /\ result' = TopComments(st.comments, max_comments)
    /\ UNCHANGED <<op, max_results, videos, completed_ids, video_id, max_comments,
                   i, results, errors, workbook>>

\* The while condition is false on entry (max_comments <= 0): sort, slice, return.
RankSkipLoop ==
    /\ op = "rank" /\ pc = "loop"
    /\ ~(total_fetched < FetchLimit(max_comments))
    /\ pc' = "returned"
    /\ result' = TopComments(comments, max_comments)
    /\ UNCHANGED <<op, max_results, videos, next_page_token, completed_ids, http_error,
                   video_id, max_comments, comments, total_fetched, request, response,
                   i, results, errors, workbook>>

RankNext == RankIteration \/ RankSkipLoop

SpecRank == RankInit /\ [][RankNext]_vars

(***************************************************************************)
(* Properties of get_top_comments_by_likes                                 *)
(***************************************************************************)

\* top is a best choice of Min(n, Len(cs)) elements of cs by like_count: it is
\* that long, in non-increasing like_count order, made of elements of cs, and
\* no element of cs left out has more likes than one that is in.
IsTopByLikes(top, cs, n) ==
    /\ Len(top) = Min(n, Len(cs))
    /\ Len(top) <= n
    /\ NonIncreasing(top, "like_count")
    /\ \A c \in Range(top) : Occurrences(top, c) <= Occurrences(cs, c)
    /\ \A c \in Range(cs) \ Range(top) : \A t \in Range(top) : c.like_count <= t.like_count

\* C3: when a commentThreads request fails, on whichever page, first or
\* later, get_top_comments_by_likes does not raise and returns the empty
\* sequence.  The code violates it: after a failure on a later page it returns
\* the comments of the pages before.
C3_RankFailureReturnsEmpty ==
    (op = "rank" /\ http_error # "none") => (pc = "returned" /\ result = <<>>)

\* What the code does on a failure instead: it does not raise, and returns the
\* top max_comments of the comments accumulated from the pages before the
\* failing one, which is the empty sequence only when the first request is
\* the one that fails.
C3_RankFailureReturnsTopOfAccumulated ==
    (op = "rank" /\ http_error # "none") =>
        /\ pc = "returned"
        /\ IsTopByLikes(result, comments, max_comments)
        /\ http_error = "first_page" => result = <<>>

\* The failing case: the request for a later page failed and the call returned
\* the best two of the three comments fetched before.
C3_Witness ==
    /\ op = "rank" /\ pc = "returned"
    /\ http_error = "later_page"
    /\ max_comments = 2
    /\ Len(comments) = 3
    /\ Len(result) = 2
    /\ result[1].like_count > result[2].like_count

\* C4: get_top_comments_by_likes returns the first max_comments of the
\* accumulated candidates sorted by like_count descending.
C4_RankReturnsTopN ==
    (op = "rank" /\ pc = "returned") => IsTopByLikes(result, comments, max_comments)

\* C4 witness: of four candidates fetched over two pages, the most liked one
\* was fetched third; it is returned first and two candidates are left out.
C4_Witness ==
    /\ op = "rank" /\ pc = "returned"
    /\ http_error = "none"
    /\ max_comments = 2
    /\ Len(comments) = 4
    /\ comments[1].like_count = 0 /\ comments[2].like_count = 0
    /\ comments[3].like_count = 1
    /\ result[1].comment_id = 3
    /\ Len(result) = 2

\* C11: with the over-fetch target T = min(5 * max_comments, 100), every
\* commentThreads request asks for min(100, T - fetched) items, which is
\* between 1 and 100 and no more than is still needed; none is made once T
\* comments have been fetched, nor after a response without a next-page token
\* (nor after a failed one); and a request that follows a response carries
\* that response's next-page token.
C11_RequestsFollowPagination ==
    (op = "rank" /\ request.issued) =>
        LET T == Min(5 * max_comments, 100)
        IN  /\ request.maxResults = Min(100, T - request.fetched)
            /\ request.maxResults >= 1
            /\ request.maxResults <= 100
            /\ request.maxResults <= T - request.fetched
            /\ request.fetched < T
            /\ request.after.kind \in {"none", "page"}
            /\ request.after.kind = "page" =>
                  /\ request.after.token # NoToken
                  /\ request.pageToken = request.after.token

\* C11 witness: a call with max_comments = 21, whose target is the cap 100 and
\* not 105, has fetched 80 comments in two pages and asks for the 20 still
\* needed with the token of the second page.
C11_Witness ==
    /\ op = "rank"
    /\ max_comments = 21
    /\ request.issued
    /\ request.fetched = 2 * PartialPage
    /\ request.maxResults = 100 - 2 * PartialPage
    /\ request.after = [kind |-> "page", token |-> "t2"]
    /\ request.pageToken = "t2"

(***************************************************************************)
(* extract_top_comments_from_videos                                        *)
(***************************************************************************)

\* A whole call of get_top_comments_by_likes against the responses of script,
\* one per request: the while loop of the method, run to its end.
\* st = [comments, next_page_token, total_fetched, exit, http_error].
RECURSIVE RunCommentLoop(_, _, _, _)
RunCommentLoop(st, vid, n, script) ==
    IF st.exit # "continue" \/ ~(st.total_fetched < FetchLimit(n))
    THEN [state |-> st, unused |-> Len(script)]
    ELSE IF script = <<>>
    THEN [state |-> [st EXCEPT !.exit = "waiting"], unused |-> 0]
    ELSE LET resp == Head(script)
             b == CommentLoopBody(st, vid, WithItems(resp, st.total_fetched))
         IN  RunCommentLoop(
                 [comments |-> b.comments,
                  next_page_token |-> b.next_page_token,
                  total_fetched |-> b.total_fetched,
                  exit |-> b.exit,
                  http_error |-> IF resp.kind = "page" THEN "none"
                                 ELSE IF st.next_page_token = NoToken THEN "first_page"
                                 ELSE "later_page"],
                 vid, n, Tail(script))

\* get_top_comments_by_likes(vid, n) when the platform answers with script:
\* whether the call returned (having used every response), what it returned,
\* whether it raised, and which request failed.
GetTopCommentsByLikes(vid, n, script) ==
    LET run == RunCommentLoop([comments |-> <<>>, next_page_token |-> NoToken,
                               total_fetched |-> 0, exit |-> "continue",
                               http_error |-> "none"], vid, n, script)
    IN  [complete |-> run.unused = 0 /\ run.state.exit # "waiting",
         raised |-> run.state.exit = "raise",
         top_comments |-> TopComments(run.state.comments, n),
         http_error |-> run.state.http_error]

\* video_result of one video.
VideoResult(video, top_comments) ==
    [video_info |-> video,
     top_comments |-> top_comments,
     comments_extracted |-> Len(top_comments)]

\* As AppendResult, counting every video as one with comments.
AppendResultCountsAll(res, video, top_comments) ==
    [extraction_info |->
        [total_videos_processed |-> res.extraction_info.total_videos_processed + 1,
         videos_with_comments |-> res.extraction_info.videos_with_comments + 1,
         top_comments_per_video |-> res.extraction_info.top_comments_per_video],
     videos |-> Append(res.videos, VideoResult(video, top_comments))]

\* The body of the for loop: append the video_result, update the statistics.
AppendResult(res, video, top_comments) ==
    [extraction_info |->
        [total_videos_processed |-> res.extraction_info.total_videos_processed + 1,
         videos_with_comments |-> IF top_comments # <<>>
                                  THEN res.extraction_info.videos_with_comments + 1
                                  ELSE res.extraction_info.videos_with_comments,
         top_comments_per_video |-> res.extraction_info.top_comments_per_video],
     videos |-> Append(res.videos, VideoResult(video, top_comments))]

\* The argument videos: what search_videos_by_keyword returns, a list of
\* video records in non-increasing view_count order (an id may occur twice).
VideoRecords == [video_id : VideoIds, view_count : ViewCounts]

VideoLists ==
    {vs \in SeqsOfLen(VideoRecords, 0..MaxVideos) :
        \A j \in 1..Len(vs) - 1 : vs[j].view_count >= vs[j + 1].view_count}

\* The responses the platform gives to the requests of one call.
Scripts == SeqsOfLen(CommentResponsesOf(ScriptPageSizes), ScriptLengths)

ExtractInit ==
    /\ op = "extract"
    /\ pc = "loop"
    /\ max_results = 0
    /\ videos \in VideoLists
    /\ next_page_token = NoToken
    /\ completed_ids = <<>>
    /\ http_error = "none"
    /\ video_id = "none"
    /\ max_comments \in CommentCounts
    /\ comments = <<>>
    /\ total_fetched = 0
    /\ request = [maxResults |-> 0, pageToken |-> NoToken]
    /\ response = NoResponse
    /\ i = 0
    /\ results = EmptyReport(max_comments)
    /\ errors = <<>>
    /\ workbook = NoWorkbook
    /\ result = <<>>

\* One iteration of the for loop: the call of get_top_comments_by_likes and
\* the bookkeeping; after the last video, the return.
ProcessVideo ==
    /\ op = "extract" /\ pc = "loop"
    /\ i < Len(videos)
    /\ \E script \in Scripts :
         LET video == videos[i + 1]
             call == GetTopCommentsByLikes(video.video_id, max_comments, script)
         IN  /\ call.complete
             /\ IF call.raised
                THEN /\ pc' = "raised"
                     /\ UNCHANGED <<i, results, errors>>
                ELSE /\ results' = AppendResult(results, video, call.top_comments)
                     /\ errors' = Append(errors, call.http_error)
                     /\ i' = i + 1
                     /\ pc' = IF i + 1 < Len(videos) THEN "loop" ELSE "returned"
    /\ UNCHANGED <<op, max_results, videos, next_page_token, completed_ids, http_error,
                   video_id, max_comments, comments, total_fetched, request, response,
                   workbook, result>>

\* videos is empty: the for loop has no iteration, results is returned as built.
ExtractSkipLoop ==
    /\ op = "extract" /\ pc = "loop"
    /\ ~(i < Len(videos))
    /\ pc' = "returned"
    /\ UNCHANGED <<op, max_results, videos, next_page_token, completed_ids, http_error,
                   video_id, max_comments, comments, total_fetched, request, response,
                   i, results, errors, workbook, result>>

(***************************************************************************)
(* save_to_excel                                                           *)
(***************************************************************************)

\* A file name is the sequence of its parts, the extension being the last one;
\* <<>> is the absent (or empty) argument.
FileNames == {<<>>, <<"comments">>, <<"comments", ".xlsx">>}

\* filename defaults to a time-stamped name and gets the extension it lacks.
ExcelFileName(filename) ==
    IF filename = <<>> THEN <<"youtube_top_comments_", "timestamp", ".xlsx">>
    ELSE IF filename[Len(filename)] # ".xlsx" THEN filename \o <<".xlsx">>
    ELSE filename

\* list.index(x): the 0-based position of the first element equal to x.
ListIndex(s, x) == (CHOOSE k \in 1..Len(s) : s[k] = x /\ \A j \in 1..k - 1 : s[j] # x) - 1

RECURSIVE Flatten(_)
Flatten(ss) == IF ss = <<>> THEN <<>> ELSE Head(ss) \o Flatten(Tail(ss))

\* The detail rows of one video_result of the report.
DetailRows(res, video) ==
    [c \in 1..Len(video.top_comments) |->
        [Video_Rank |-> ListIndex(res.videos, video) + 1,
         Video_ID |-> video.video_info.video_id,
         Video_Views |-> video.video_info.view_count,
         Comment_Rank |-> c,
         Comment_ID |-> video.top_comments[c].comment_id,
         Comment_Likes |-> video.top_comments[c].like_count]]

\* excel_data: the rows of every video, in the order of the report.
ExcelData(res) == Flatten([k \in 1..Len(res.videos) |-> DetailRows(res, res.videos[k])])

\* An overview that lists only the videos that have comments.
VideoOverviewOfCommented(res) ==
    LET kept == SelectSeq(res.videos, LAMBDA v : v.top_comments # <<>>)
    IN  [k \in 1..Len(kept) |->
            [Rank |-> ListIndex(res.videos, kept[k]) + 1,
             Video_ID |-> kept[k].video_info.video_id,
             Views |-> kept[k].video_info.view_count,
             Comments_Extracted |-> kept[k].comments_extracted]]

\* video_overview: one row per video_result.
VideoOverview(res) ==
    [k \in 1..Len(res.videos) |->
        [Rank |-> ListIndex(res.videos, res.videos[k]) + 1,
         Video_ID |-> res.videos[k].video_info.video_id,
         Views |-> res.videos[k].video_info.view_count,
         Comments_Extracted |-> res.videos[k].comments_extracted]]

\* summary_data, as Metric |-> Value.
SummaryData(res, excel_data) ==
    [Total_Videos_Processed |-> res.extraction_info.total_videos_processed,
     Videos_with_Comments |-> res.extraction_info.videos_with_comments,
     Total_Comments_Extracted |-> Len(excel_data),
     Comments_per_Video |-> res.extraction_info.top_comments_per_video]

\* save_to_excel(results, filename) on the report extract returned.
SaveToExcel ==
    /\ op = "extract" /\ pc = "returned"
    /\ \E filename \in FileNames :
         LET name == ExcelFileName(filename)
             excel_data == ExcelData(results)
         IN  IF excel_data # <<>>
             THEN /\ workbook' = [written |-> TRUE,
                                  filename |-> name,
                                  Top_Comments |-> excel_data,
                                  Summary |-> SummaryData(results, excel_data),
                                  Video_Overview |-> VideoOverview(results)]
                  /\ result' = [none |-> FALSE, filename |-> name]
             ELSE /\ UNCHANGED workbook
                  /\ result' = [none |-> TRUE, filename |-> <<>>]
    /\ pc' = "saved"
    /\ UNCHANGED <<op, max_results, videos, next_page_token, completed_ids, http_error,
                   video_id, max_comments, comments, total_fetched, request, response,
                   i, results, errors>>

ExtractNext == ProcessVideo \/ ExtractSkipLoop \/ SaveToExcel

SpecExtract == ExtractInit /\ [][ExtractNext]_vars

(***************************************************************************)
(* Properties of extract_top_comments_from_videos and save_to_excel        *)
(***************************************************************************)

\* The position in the report of the video_result each detail row comes from,
\* and the position of each detail row's comment among that video's comments.
RowVideoPositions(res) ==
    Flatten([k \in 1..Len(res.videos) |-> [c \in 1..Len(res.videos[k].top_comments) |-> k]])

RowCommentPositions(res) ==
    Flatten([k \in 1..Len(res.videos) |-> [c \in 1..Len(res.videos[k].top_comments) |-> c]])

\* C5: after each video, total_videos_processed is the number of
\* video_results appended, videos_with_comments the number of those with a
\* non-empty top_comments, and each comments_extracted the length of its
\* top_comments.
C5_CountersMatchResults ==
    op = "extract" =>
        /\ results.extraction_info.total_videos_processed = Len(results.videos)
        /\ results.extraction_info.videos_with_comments
              = Cardinality({k \in 1..Len(results.videos) :
                                results.videos[k].top_comments # <<>>})
        /\ \A k \in 1..Len(results.videos) :
              results.videos[k].comments_extracted = Len(results.videos[k].top_comments)

\* C5 witness: the report of two videos of which exactly one has comments,
\* fewer than requested.
C5_Witness ==
    /\ op = "extract" /\ pc = "returned"
    /\ Len(results.videos) = 2
    /\ max_comments = 2
    /\ results.videos[1].top_comments = <<>>
    /\ results.videos[2].comments_extracted = 1
    /\ results.extraction_info.videos_with_comments = 1

\* C6: a failure while ranking one video's comments gives that video a
\* video_result with zero comments and does not abort the run: the report
\* holds one video_result per input video, in the input order.  The code
\* violates the first part: a video whose later page fails keeps the comments
\* of its earlier pages.
C6_FailedVideoHasNoComments ==
    (op = "extract" /\ pc # "loop") =>
        /\ pc # "raised"
        /\ Len(results.videos) = Len(videos)
        /\ \A k \in 1..Len(videos) :
              /\ results.videos[k].video_info = videos[k]
              /\ errors[k] # "none" => results.videos[k].top_comments = <<>>

\* The part the code keeps: the run is not aborted, the report holds one
\* video_result per input video, in the input order, and a video whose first
\* request fails has no comments.
C6_OneResultPerVideoInOrder ==
    (op = "extract" /\ pc # "loop") =>
        /\ pc # "raised"
        /\ Len(results.videos) = Len(videos)
        /\ \A k \in 1..Len(videos) :
              /\ results.videos[k].video_info = videos[k]
              /\ errors[k] = "first_page" => results.videos[k].top_comments = <<>>

\* The failing case: the first of two videos failed on its first request, the
\* second one failed on a later page after a comment had been fetched; both
\* are in the report, the second one with a comment.
C6_Witness ==
    /\ op = "extract" /\ pc = "returned"
    /\ Len(videos) = 2
    /\ videos[1] # videos[2]
    /\ errors = <<"first_page", "later_page">>
    /\ results.videos[1].top_comments = <<>>
    /\ results.videos[2].top_comments # <<>>

\* C7: every overview row's rank and every detail row's video rank is the
\* 1-based position of its video_result in the report, and a detail row's
\* comment rank the 1-based position of the comment among the video's.
C7_RanksArePositions ==
    (op = "extract" /\ pc = "saved" /\ workbook.written) =>
        /\ \A k \in 1..Len(workbook.Video_Overview) : workbook.Video_Overview[k].Rank = k
        /\ \A r \in 1..Len(workbook.Top_Comments) :
              /\ workbook.Top_Comments[r].Video_Rank = RowVideoPositions(results)[r]
              /\ workbook.Top_Comments[r].Comment_Rank = RowCommentPositions(results)[r]

RECURSIVE TotalComments(_)
TotalComments(vrs) ==
    IF vrs = <<>> THEN 0 ELSE Len(Head(vrs).top_comments) + TotalComments(Tail(vrs))

\* C8: save_to_excel returns None and writes nothing exactly when the report
\* has no comment at all; otherwise it writes one workbook with a detail row
\* per (video, comment) pair and an overview row per video, and returns the
\* name of the file written.
C8_SaveWritesUnlessEmpty ==
    /\ (op = "extract" /\ pc # "saved") => ~workbook.written
    /\ (op = "extract" /\ pc = "saved") =>
          /\ result.none <=> TotalComments(results.videos) = 0
          /\ result.none => ~workbook.written
          /\ ~result.none =>
                /\ workbook.written
                /\ Len(workbook.Top_Comments) = TotalComments(results.videos)
                /\ Len(workbook.Video_Overview) = Len(results.videos)
                /\ result.filename = workbook.filename
                /\ result.filename # <<>>

\* C8 witness: a report of two videos, one without comments and one with two,
\* was written as two detail rows and two overview rows.
C8_Witness ==
    /\ op = "extract" /\ pc = "saved"
    /\ ~result.none
    /\ Len(results.videos) = 2
    /\ results.videos[1].top_comments = <<>>
    /\ Len(workbook.Top_Comments) = 2
    /\ Len(workbook.Video_Overview) = 2


====
